---- MODULE Spec2Model ----
(***************************************************************************)
(* Model of the telegram crate's binary codec (telegram/src/ser.rs) and of *)
(* the request/response cycle of its transport client                     *)
(* (telegram/src/client.rs).                                               *)
(*                                                                         *)
(* Codec: the state is the growable byte buffer a caller passes to         *)
(* serialize_to, plus the value last serialized and how the call ended.    *)
(* Client: the state is the position of the one thread inside              *)
(* Client::send and what the reactor holds.                                *)
(*                                                                         *)
(* Representation of integers.  TLC's integers are 32 bits wide, so        *)
(*   - integers of at most 32 bits are TLA+ integers (signed ones          *)
(*     negative; \div and % floor, which yields two's complement bytes);   *)
(*   - a 64-bit word is a sequence of four 16-bit limbs, limb i having     *)
(*     weight 2^(16*(i-1)) (least significant limb first);                 *)
(*   - a 128-bit integer is a record [hi, lo] of two 64-bit words, as      *)
(*     extprim stores it; i128 holds the two's complement bits.            *)
(***************************************************************************)
EXTENDS Integers, Sequences, FiniteSets, TLC

VARIABLES
    buffer,     \* the Vec<u8> passed to serialize_to
    start,      \* Len(buffer) when the last serialize_to call began
    val,        \* the value the last call serialized (NoVal before any call)
    result,     \* how the last call ended: "Ok", "Err", "Panic" ("None" before)
    nops,       \* number of serialize_to calls made on this buffer
    pc,         \* Client::send: position of the calling thread
    req,        \* Client::send: the Request moved into send
    handler,    \* Client::send: the continuation (on_receive_handler)
    http_request, \* Client::send: the value of req.to_http_request()?
    promise,    \* Client::send: stage of the future core.run is driving
    inflight,   \* HTTP requests issued by http_client and not yet finished
    exchange,   \* the HTTP exchange of this send: "none", "pending",
                \* "complete" (whole body received) or "failed"
    reply,      \* the body the server answers the pending request with
    data,       \* reply body chunks concatenated so far (concat2)
    response,   \* the value of Response::from_reader(&*data) once taken
    resolved,   \* the value the promise resolved to (NoVal while pending)
    handlerCalls, \* arguments the continuation was invoked with, in order
    httpCalls,  \* HTTP calls issued during the current/last send
    ret,        \* value returned by the last send ("None" before)
    sends       \* number of send calls begun

codecVars == <<buffer, start, val, result, nops>>
clientVars == <<pc, req, handler, http_request, promise, inflight, exchange,
                reply, data, response, resolved, handlerCalls, httpCalls, ret,
                sends>>
vars == <<buffer, start, val, result, nops, pc, req, handler, http_request,
          promise, inflight, exchange, reply, data, response, resolved,
          handlerCalls, httpCalls, ret, sends>>

-----------------------------------------------------------------------------
(* Bounds of the model *)

\* serialize_to calls made on one buffer
MaxOps == 2
\* largest seed of the byte pattern filling a sample String
MaxSeed == 1
\* Client::send calls made on one Client
MaxSends == 2

-----------------------------------------------------------------------------
(* byteorder primitives on Vec<u8> *)

\* The nbytes low bytes of n, least significant first (two's complement for
\* negative n, since \div floors and % is non-negative).
LEBytes(n, nbytes) == [i \in 1..nbytes |-> (n \div (256 ^ (i - 1))) % 256]

\* Byte j (weight 2^(8j), j in 0..7) of a 64-bit word of four 16-bit limbs.
ByteOf(w, j) == (w[(j \div 2) + 1] \div (256 ^ (j % 2))) % 256

write_u64_BigEndian(w) == [k \in 1..8 |-> ByteOf(w, 8 - k)]

write_u64_LittleEndian(w) == [k \in 1..8 |-> ByteOf(w, k - 1)]

\* byteorder's pack_size: the number of bytes needed to hold n (n < 2^31 here).
pack_size(n) ==
    IF n < 256 THEN 1
    ELSE IF n < 65536 THEN 2
    ELSE IF n < 16777216 THEN 3
    ELSE 4

Ok(buf) == [buffer |-> buf, result |-> "Ok"]

Panic(buf) == [buffer |-> buf, result |-> "Panic"]

\* WriteBytesExt::write_uint::<LittleEndian>(n, nbytes) on a Vec<u8>:
\* byteorder asserts pack_size(n) <= nbytes && nbytes <= 8 before writing.
write_uint_LittleEndian(buf, n, nbytes) ==
    IF pack_size(n) <= nbytes /\ nbytes <= 8
    THEN Ok(buf \o LEBytes(n, nbytes))
    ELSE Panic(buf)

\* The `?` operator and panic unwinding: the rest of the function runs only
\* when the previous step returned Ok.
Try(r, rest) == IF r.result = "Ok" THEN rest ELSE r

-----------------------------------------------------------------------------
(* impl Serialize for ... *)

BoolTrue == -1720552011
BoolFalse == -1132882121
VectorTag == 481674261   \* 0x1cb5c415

bool_serialize_to(self, buf) ==
    IF self.b
    THEN Ok(buf \o LEBytes(BoolTrue, 4))
    ELSE Ok(buf \o LEBytes(BoolFalse, 4))

\* i8 and u8: buffer.push(*self as u8)
byte_serialize_to(self, buf) == Ok(Append(buf, self.n % 256))

\* impl_serialize!(type, write): 16- and 32-bit integers and f32 (given by
\* its IEEE-754 bit pattern), written little-endian in self.width bytes.
impl_serialize_small(self, buf) == Ok(buf \o LEBytes(self.n, self.width))

\* impl_serialize!(type, write): i64, u64 and f64 (IEEE-754 bit pattern).
impl_serialize_64(self, buf) == Ok(buf \o write_u64_LittleEndian(self.w))

high64(x) == x.hi
low64(x) == x.lo

\* i128::as_u128: the same 128 bits read as unsigned.
as_u128(x) == [kind |-> "u128", hi |-> x.hi, lo |-> x.lo]

\* The four 32-bit little-endian ints the TODO of lines 79-88 considers.
u32_halves_LittleEndian(w) ==
    <<ByteOf(w, 4), ByteOf(w, 5), ByteOf(w, 6), ByteOf(w, 7),
      ByteOf(w, 0), ByteOf(w, 1), ByteOf(w, 2), ByteOf(w, 3)>>

\* Mutant of u128_serialize_to: int128 as 4*[ int ], each int little-endian.
u128_serialize_to_as_4_ints(self, buf) ==
    Ok((buf \o u32_halves_LittleEndian(high64(self)))
            \o u32_halves_LittleEndian(low64(self)))

u128_serialize_to(self, buf) ==
    LET r1 == Ok(buf \o write_u64_BigEndian(high64(self)))
    IN  Try(r1, Ok(r1.buffer \o write_u64_BigEndian(low64(self))))

i128_serialize_to(self, buf) == u128_serialize_to(as_u128(self), buf)

pair_serialize_to(self, buf) ==
    LET r1 == i128_serialize_to(self.f1, buf)
    IN  Try(r1, i128_serialize_to(self.f0, r1.buffer))

\* String::len and String::as_bytes.  A sample String is given by its byte
\* length and the seed of the pattern that fills it.
StrLen(self) == self.len
as_bytes(self) == [i \in 1..self.len |-> (self.seed + i) % 256]

\* The zero padding of String::serialize_to (lines 137-142).
StringPadding(len) ==
    LET rem == len % 4
    IN  IF rem > 0 THEN [i \in 1..(4 - rem) |-> 0] ELSE <<>>

\* Mutant of StringPrefix: the one-byte form taken up to 254, the sentinel.
StringPrefix_len_le_254(len, buf) ==
    IF len <= 254
    THEN Ok(Append(buf, len % 256))
    ELSE write_uint_LittleEndian(Append(buf, 254), len, 3)

\* The length prefix of String::serialize_to (lines 115-130).
StringPrefix(len, buf) ==
    IF len <= 253
    THEN Ok(Append(buf, len % 256))
    ELSE write_uint_LittleEndian(Append(buf, 254), len, 3)

String_serialize_to(self, buf) ==
    LET len == StrLen(self)
        r1 == StringPrefix(len, buf)
    IN  Try(r1, Ok((r1.buffer \o as_bytes(self)) \o StringPadding(len)))

RECURSIVE serialize_to(_, _)
RECURSIVE SerializeElements(_, _, _)

\* for element in self { element.serialize_to(buffer)?; }
SerializeElements(elems, i, buf) ==
    IF i > Len(elems) THEN Ok(buf)
    ELSE LET r1 == serialize_to(elems[i], buf)
         IN  Try(r1, SerializeElements(elems, i + 1, r1.buffer))

Vec_serialize_to(self, buf) ==
    LET b1 == buf \o LEBytes(VectorTag, 4)
        len == Len(b1)      \* let len = buffer.len() as u32;
        b2 == b1 \o LEBytes(len, 4)
    IN  SerializeElements(self.elems, 1, b2)

BoxAny_serialize_to(self, buf) ==
    IF self.holds = "BoxSerialize"      \* downcast_ref::<Box<Serialize>>()
    THEN serialize_to(self.inner, buf)
    ELSE Panic(buf)                     \* panic!("Serialize not implemented")

\* Serialize::serialize_to, dispatched on the type of self.
serialize_to(self, buf) ==
    CASE self.kind = "bool" -> bool_serialize_to(self, buf)
      [] self.kind \in {"i8", "u8"} -> byte_serialize_to(self, buf)
      [] self.kind \in {"i16", "i32", "u16", "u32", "f32"} ->
            impl_serialize_small(self, buf)
      [] self.kind \in {"i64", "u64", "f64"} -> impl_serialize_64(self, buf)
      [] self.kind = "i128" -> i128_serialize_to(self, buf)
      [] self.kind = "u128" -> u128_serialize_to(self, buf)
      [] self.kind = "pair" -> pair_serialize_to(self, buf)
      [] self.kind = "String" -> String_serialize_to(self, buf)
      [] self.kind = "Vec" -> Vec_serialize_to(self, buf)
      [] self.kind = "BoxAny" -> BoxAny_serialize_to(self, buf)

-----------------------------------------------------------------------------
(* Sample values of every type that implements Serialize *)

NoVal == [kind |-> "None"]

\* A 64-bit word from its four 16-bit groups, most significant first.
W64(a, b, c, d) == <<d, c, b, a>>

Zero64 == W64(0, 0, 0, 0)
Ones64 == W64(\hFFFF, \hFFFF, \hFFFF, \hFFFF)
NonceHi == W64(\h3E05, \h4982, \h8CCA, \h27E9)
NonceLo == W64(\h66B3, \h01A4, \h8FEC, \hE2FC)

Int128(k, h, l) == [kind |-> k, hi |-> h, lo |-> l]

\* i128!(0x3E0549828CCA27E966B301A48FECE2FC), the nonce of the example
Nonce == Int128("i128", NonceHi, NonceLo)

Small(k, w, n) == [kind |-> k, width |-> w, n |-> n]

MkString(len, seed) == [kind |-> "String", len |-> len, seed |-> seed]

MkVec(elems) == [kind |-> "Vec", elems |-> elems]

U8(n) == [kind |-> "u8", n |-> n]

Bools == {[kind |-> "bool", b |-> TRUE], [kind |-> "bool", b |-> FALSE]}

Bytes == {[kind |-> "i8", n |-> -1], [kind |-> "i8", n |-> 5], U8(0), U8(200)}

Smalls ==
    { Small("i16", 2, -2), Small("i16", 2, 258), Small("u16", 2, 65535),
      Small("i32", 4, BoolTrue), Small("i32", 4, 1), Small("u32", 4, VectorTag),
      Small("f32", 4, 1065353216) }      \* 1.0f32 = 0x3F800000

Words64 ==
    { [kind |-> "i64", w |-> Ones64],                         \* -1
      [kind |-> "u64", w |-> W64(\h0102, \h0304, \h0506, \h0708)],
      [kind |-> "f64", w |-> W64(\h3FF0, 0, 0, 0)] }          \* 1.0f64

U128s ==
    { Int128("u128", NonceHi, NonceLo), Int128("u128", Zero64, Zero64),
      Int128("u128", Zero64, W64(0, 0, 0, 1)),
      Int128("u128", W64(\h8000, 0, 0, 0), W64(0, 0, \h00FF, \hFF00)) }

I128s ==
    { Nonce, Int128("i128", Ones64, Ones64),                  \* -1
      Int128("i128", W64(\h8000, 0, 0, 0), Zero64) }          \* i128::MIN

Pairs ==
    { [kind |-> "pair", f0 |-> a, f1 |-> b] :
        <<a, b>> \in { <<Nonce, Int128("i128", Ones64, Ones64)>>,
                       <<Int128("i128", Zero64, W64(0, 0, 0, 1)), Nonce>> } }

\* Byte lengths of the sample Strings: around the padding residues, around
\* the 253/254 prefix boundary, a length whose 3-byte form uses two bytes,
\* and the first length that does not fit three bytes.
StrLens == {0, 1, 2, 3, 4, 253, 254, 255, 256, 257, 16777216}

Strings == {MkString(l, s) : l \in StrLens, s \in 0..MaxSeed}

VecsOfU8 == {MkVec(<<>>), MkVec(<<U8(1)>>), MkVec(<<U8(1), U8(2), U8(3)>>)}

VecsOfString ==
    { MkVec(<<MkString(0, 0), MkString(3, 1)>>),
      MkVec(<<MkString(16777216, 0), MkString(1, 0)>>) }

VecsOfVec == {MkVec(<<MkVec(<<U8(9)>>), MkVec(<<>>)>>)}

VecsOfI128 == {MkVec(<<Nonce, Nonce>>)}

BoxAnys ==
    { [kind |-> "BoxAny", holds |-> "BoxSerialize", inner |-> U8(7)],
      [kind |-> "BoxAny", holds |-> "BoxSerialize", inner |-> MkString(2, 0)],
      [kind |-> "BoxAny", holds |-> "Other", inner |-> NoVal] }

\* What the caller's buffer may already hold.
InitBuffers == {<<>>, <<7>>, <<1, 2, 3, 4, 5>>}

-----------------------------------------------------------------------------
(* Codec: calls of serialize_to on one buffer *)

\* A panic unwinds the caller, so no further call follows one.
CanCall == nops < MaxOps /\ result # "Panic"

\* The codec state after one call v.serialize_to(&mut buffer).
Called(v) ==
    LET r == serialize_to(v, buffer)
    IN  [buffer |-> r.buffer, result |-> r.result, start |-> Len(buffer),
         val |-> v, nops |-> nops + 1]

SerializeBool ==
    /\ CanCall
    /\ \E v \in Bools :
        /\ buffer' = Called(v).buffer
        /\ result' = Called(v).result
        /\ start' = Called(v).start
        /\ val' = Called(v).val
        /\ nops' = Called(v).nops
    /\ UNCHANGED clientVars

SerializeByte ==
    /\ CanCall
    /\ \E v \in Bytes :
        /\ buffer' = Called(v).buffer
        /\ result' = Called(v).result
        /\ start' = Called(v).start
        /\ val' = Called(v).val
        /\ nops' = Called(v).nops
    /\ UNCHANGED clientVars

SerializeSmall ==
    /\ CanCall
    /\ \E v \in Smalls :
        /\ buffer' = Called(v).buffer
        /\ result' = Called(v).result
        /\ start' = Called(v).start
        /\ val' = Called(v).val
        /\ nops' = Called(v).nops
    /\ UNCHANGED clientVars

Serialize64 ==
    /\ CanCall
    /\ \E v \in Words64 :
        /\ buffer' = Called(v).buffer
        /\ result' = Called(v).result
        /\ start' = Called(v).start
        /\ val' = Called(v).val
        /\ nops' = Called(v).nops
    /\ UNCHANGED clientVars

SerializeU128 ==
    /\ CanCall
    /\ \E v \in U128s :
        /\ buffer' = Called(v).buffer
        /\ result' = Called(v).result
        /\ start' = Called(v).start
        /\ val' = Called(v).val
        /\ nops' = Called(v).nops
    /\ UNCHANGED clientVars

SerializeI128 ==
    /\ CanCall
    /\ \E v \in I128s :
        /\ buffer' = Called(v).buffer
        /\ result' = Called(v).result
        /\ start' = Called(v).start
        /\ val' = Called(v).val
        /\ nops' = Called(v).nops
    /\ UNCHANGED clientVars

SerializePair ==
    /\ CanCall
    /\ \E v \in Pairs :
        /\ buffer' = Called(v).buffer
        /\ result' = Called(v).result
        /\ start' = Called(v).start
        /\ val' = Called(v).val
        /\ nops' = Called(v).nops
    /\ UNCHANGED clientVars

SerializeString ==
    /\ CanCall
    /\ \E v \in Strings :
        /\ buffer' = Called(v).buffer
        /\ result' = Called(v).result
        /\ start' = Called(v).start
        /\ val' = Called(v).val
        /\ nops' = Called(v).nops
    /\ UNCHANGED clientVars

SerializeVecU8 ==
    /\ CanCall
    /\ \E v \in VecsOfU8 :
        /\ buffer' = Called(v).buffer
        /\ result' = Called(v).result
        /\ start' = Called(v).start
        /\ val' = Called(v).val
        /\ nops' = Called(v).nops
    /\ UNCHANGED clientVars

SerializeVecString ==
    /\ CanCall
    /\ \E v \in VecsOfString :
        /\ buffer' = Called(v).buffer
        /\ result' = Called(v).result
        /\ start' = Called(v).start
        /\ val' = Called(v).val
        /\ nops' = Called(v).nops
    /\ UNCHANGED clientVars

SerializeVecVec ==
    /\ CanCall
    /\ \E v \in VecsOfVec :
        /\ buffer' = Called(v).buffer
        /\ result' = Called(v).result
        /\ start' = Called(v).start
        /\ val' = Called(v).val
        /\ nops' = Called(v).nops
    /\ UNCHANGED clientVars

SerializeVecI128 ==
    /\ CanCall
    /\ \E v \in VecsOfI128 :
        /\ buffer' = Called(v).buffer
        /\ result' = Called(v).result
        /\ start' = Called(v).start
        /\ val' = Called(v).val
        /\ nops' = Called(v).nops
    /\ UNCHANGED clientVars

SerializeBoxAny ==
    /\ CanCall
    /\ \E v \in BoxAnys :
        /\ buffer' = Called(v).buffer
        /\ result' = Called(v).result
        /\ start' = Called(v).start
        /\ val' = Called(v).val
        /\ nops' = Called(v).nops
    /\ UNCHANGED clientVars

CodecInit ==
    /\ buffer \in InitBuffers
    /\ start = Len(buffer)
    /\ val = NoVal
    /\ result = "None"
    /\ nops = 0

ClientIdle ==
    /\ pc = "idle"
    /\ req = NoVal
    /\ handler = NoVal
    /\ http_request = NoVal
    /\ promise = "None"
    /\ inflight = 0
    /\ exchange = "none"
    /\ reply = <<>>
    /\ data = <<>>
    /\ response = NoVal
    /\ resolved = NoVal
    /\ handlerCalls = <<>>
    /\ httpCalls = 0
    /\ ret = NoVal
    /\ sends = 0

Init == CodecInit /\ ClientIdle

Next ==
    \/ SerializeBool
    \/ SerializeByte
    \/ SerializeSmall
    \/ Serialize64
    \/ SerializeU128
    \/ SerializeI128
    \/ SerializePair
    \/ SerializeString
    \/ SerializeVecU8
    \/ SerializeVecString
    \/ SerializeVecVec
    \/ SerializeVecI128
    \/ SerializeBoxAny

Spec == Init /\ [][Next]_vars

\* The bytes the last call appended.
Appended == SubSeq(buffer, start + 1, Len(buffer))

\* What v.serialize_to appends to a buffer that already holds b, and how the
\* call ends.
Encoding(v, b) ==
    LET r == serialize_to(v, b)
    IN  [bytes |-> SubSeq(r.buffer, Len(b) + 1, Len(r.buffer)),
         result |-> r.result]

-----------------------------------------------------------------------------
(* Claims about the codec *)

\* Number of prefix bytes of a String of byte-length L.
PrefixLen(L) == IF L <= 253 THEN 1 ELSE 4

\* C1: String padding law.  After String::serialize_to returned Ok for a
\* String of byte-length L, the number of bytes it appended (prefix + L +
\* padding) is a positive multiple of 4 and every byte after the payload is 0.
C1_StringPaddingLaw ==
    (val.kind = "String" /\ result = "Ok") =>
        /\ Len(Appended) > 0
        /\ Len(Appended) % 4 = 0
        /\ \A i \in (PrefixLen(val.len) + val.len + 1)..Len(Appended) :
                Appended[i] = 0

\* C2: Sequence encoding.  After Vec::serialize_to returned Ok, the appended
\* bytes are the little-endian tag 0x1cb5c415, the little-endian number of
\* elements, then what each element appends in order.
C2_VecEncoding ==
    (val.kind = "Vec" /\ result = "Ok") =>
        /\ Len(Appended) >= 8
        /\ SubSeq(Appended, 1, 4) = <<\h15, \hC4, \hB5, \h1C>>
        /\ SubSeq(Appended, 5, 8) = LEBytes(Len(val.elems), 4)
        /\ buffer = SerializeElements(val.elems, 1,
                                      SubSeq(buffer, 1, start + 8)).buffer

\* The 16-bit group (most significant byte first) at bytes k, k+1 of s.
Group(s, k) == s[k] * 256 + s[k + 1]

\* C3: 128-bit encoding.  serialize_to of a u128 or i128 returns Ok and
\* appends exactly 16 bytes: the high 64 bits most significant byte first,
\* then the low 64 bits most significant byte first; the nonce
\* 0x3E0549828CCA27E966B301A48FECE2FC gives 3E 05 49 82 8C CA 27 E9 66 B3 01
\* A4 8F EC E2 FC.
C3_Int128Encoding ==
    (val.kind \in {"u128", "i128"}) =>
        /\ result = "Ok"
        /\ Len(Appended) = 16
        /\ \A i \in 1..4 :
            /\ Group(Appended, 2 * (4 - i) + 1) = val.hi[i]
            /\ Group(Appended, 8 + 2 * (4 - i) + 1) = val.lo[i]
        /\ (val.hi = NonceHi /\ val.lo = NonceLo) =>
                Appended = << \h3E, \h05, \h49, \h82, \h8C, \hCA, \h27, \hE9,
                              \h66, \hB3, \h01, \hA4, \h8F, \hEC, \hE2, \hFC >>

\* C3 witness: the nonce of the example was serialized as an i128 after
\* other data, and a u128 with a set top bit was serialized too.
C3_Witness ==
    \/ /\ val = Nonce
       /\ result = "Ok"
       /\ start > 0
    \/ /\ val.kind = "u128"
       /\ result = "Ok"
       /\ val.hi[4] = \h8000

\* C4: String length prefix.  For a String of byte-length L < 2^24 the call
\* returns Ok; the first appended byte is L when L <= 253, and otherwise 254
\* followed by L in 3 little-endian bytes; the L payload bytes follow the
\* prefix unchanged; so the first byte tells the prefix form and the prefix
\* yields L.
C4_StringLengthPrefix ==
    (val.kind = "String" /\ val.len < 16777216) =>
        /\ result = "Ok"
        /\ LET L == val.len
               first == Appended[1]
               long == first = 254
               recovered ==
                   IF long
                   THEN Appended[2] + 256 * Appended[3] + 65536 * Appended[4]
                   ELSE first
               skip == IF long THEN 4 ELSE 1
           IN  /\ first <= 254
               /\ long <=> (L > 253)
               /\ recovered = L
               /\ Len(Appended) >= skip + L
               /\ SubSeq(Appended, skip + 1, skip + L) = as_bytes(val)

\* C4 witness: a String of 256 bytes (whose 3-byte length has a non-zero
\* second byte) and the 253-byte String were serialized.
C4_Witness ==
    /\ val.kind = "String"
    /\ result = "Ok"
    /\ val.len \in {253, 256}
    /\ nops = 2

\* C5: Encoding is total.  No serialize_to call panics.
C5_EncodingTotal == result # "Panic"

\* C6: Canonical, stateless encoding.  What serialize_to appended for the
\* value, and how the call ended, is what it appends to every other initial
\* buffer.
C6_CanonicalEncoding ==
    (val.kind # "None") =>
        \A b \in InitBuffers :
            Encoding(val, b) = [bytes |-> Appended, result |-> result]

-----------------------------------------------------------------------------
(* Message envelope: Request and Response (request.rs, response.rs) *)

ReqPqId == 1
ResPQId == 2

OkV(v) == [kind |-> "Ok", value |-> v]
ErrV(e) == [kind |-> "Err", err |-> e]

\* Request::to_http_request: the transport request whose body is the type
\* identifier followed by the payload's encoding, or EncodeError when the
\* payload does not encode.
to_http_request(r) ==
    IF r.encodable
    THEN OkV([kind |-> "HttpRequest", body |-> <<r.id, r.payload>>])
    ELSE ErrV("EncodeError")

\* Response::from_reader: reads the identifier, then the payload.
from_reader(bytes) ==
    IF Len(bytes) < 2 THEN ErrV("Truncated")
    ELSE IF bytes[1] # ResPQId THEN ErrV("TypeMismatch")
    ELSE OkV([kind |-> "Response", id |-> bytes[1], payload |-> Tail(bytes)])

Requests ==
    { [kind |-> "Request", id |-> ReqPqId, payload |-> p, encodable |-> e] :
        p \in {3, 4}, e \in BOOLEAN }

\* Continuations: FnOnce(Response<U>) -> R, here R an integer.
Handlers == {[kind |-> "Handler", add |-> a] : a \in {0, 10}}

CallHandler(h, resp) == resp.payload[Len(resp.payload)] + h.add

\* Reply bodies the server may answer with: well-formed (short and long),
\* of another type, truncated, empty.
Bodies == {<<ResPQId, 5>>, <<ResPQId, 5, 6>>, <<9, 5>>, <<ResPQId>>, <<>>}

-----------------------------------------------------------------------------
(* Client::send *)

\* The Client is Awaiting while a request it issued has no reply yet.
ClientState == IF inflight = 0 THEN "Idle" ELSE "Awaiting"

\* client.send(req, on_receive_handler) is called; &mut self admits one call
\* at a time.
CallSend ==
    /\ pc = "idle"
    /\ sends < MaxSends
    /\ \E r \in Requests, h \in Handlers :
        /\ req' = r
        /\ handler' = h
    /\ pc' = "to_http_request"
    /\ sends' = sends + 1
    /\ http_request' = NoVal
    /\ exchange' = "none"
    /\ reply' = <<>>
    /\ data' = <<>>
    /\ response' = NoVal
    /\ resolved' = NoVal
    /\ handlerCalls' = <<>>
    /\ httpCalls' = 0
    /\ ret' = NoVal
    /\ UNCHANGED <<promise, inflight>>
    /\ UNCHANGED codecVars

\* Mutant of ToHttpRequest: a failed serialization replaced by an empty
\* request (unwrap_or_default) and the send carried on.
ToHttpRequest_unwrap_or_default ==
    /\ pc = "to_http_request"
    /\ LET r == to_http_request(req)
       IN  http_request' = IF r.kind = "Ok" THEN r.value
                           ELSE [kind |-> "HttpRequest", body |-> <<>>]
    /\ pc' = "build"
    /\ UNCHANGED <<req, handler, promise, inflight, exchange, reply, data,
                   response, resolved, handlerCalls, httpCalls, ret, sends>>
    /\ UNCHANGED codecVars

\* line 38: let http_request = req.to_http_request()?;
ToHttpRequest ==
    /\ pc = "to_http_request"
    /\ LET r == to_http_request(req)
       IN  IF r.kind = "Ok"
           THEN /\ http_request' = r.value
                /\ pc' = "build"
                /\ ret' = ret
           ELSE /\ ret' = r
                /\ pc' = "idle"
                /\ http_request' = http_request
    /\ UNCHANGED <<req, handler, promise, inflight, exchange, reply, data,
                   response, resolved, handlerCalls, httpCalls, sends>>
    /\ UNCHANGED codecVars

\* lines 40-47: the future is built; nothing runs until it is polled.
BuildPromise ==
    /\ pc = "build"
    /\ promise' = "request"
    /\ pc' = "run"
    /\ UNCHANGED <<req, handler, http_request, inflight, exchange, reply, data,
                   response, resolved, handlerCalls, httpCalls, ret, sends>>
    /\ UNCHANGED codecVars

\* lines 41-42, polled by core.run: the HTTP call is issued.
IssueRequest ==
    /\ pc = "run"
    /\ promise = "request"
    /\ inflight' = inflight + 1
    /\ httpCalls' = httpCalls + 1
    /\ exchange' = "pending"
    /\ reply' \in Bodies
    /\ promise' = "response"
    /\ UNCHANGED <<pc, req, handler, http_request, data, response, resolved,
                   handlerCalls, ret, sends>>
    /\ UNCHANGED codecVars

\* line 43: the response head arrived; and_then starts res.body().concat2().
RecvResponse ==
    /\ pc = "run"
    /\ promise = "response"
    /\ promise' = "concat2"
    /\ UNCHANGED <<pc, req, handler, http_request, inflight, exchange, reply,
                   data, response, resolved, handlerCalls, httpCalls, ret,
                   sends>>
    /\ UNCHANGED codecVars

\* line 43: concat2 appends the next chunk of the body.
RecvChunk ==
    /\ pc = "run"
    /\ promise = "concat2"
    /\ Len(data) < Len(reply)
    /\ data' = Append(data, reply[Len(data) + 1])
    /\ UNCHANGED <<pc, req, handler, http_request, promise, inflight, exchange,
                   reply, response, resolved, handlerCalls, httpCalls, ret,
                   sends>>
    /\ UNCHANGED codecVars

\* Mutant of BodyEnd: the body taken to be its first chunk (into_future in
\* place of concat2).
BodyEnd_first_chunk ==
    /\ pc = "run"
    /\ promise = "concat2"
    /\ Len(data) = Len(reply) \/ Len(data) >= 2
    /\ inflight' = inflight - 1
    /\ exchange' = "complete"
    /\ promise' = "from_reader"
    /\ UNCHANGED <<pc, req, handler, http_request, reply, data, response,
                   resolved, handlerCalls, httpCalls, ret, sends>>
    /\ UNCHANGED codecVars

\* line 43: the body stream ended; concat2 yields the whole body.
BodyEnd ==
    /\ pc = "run"
    /\ promise = "concat2"
    /\ Len(data) = Len(reply)
    /\ inflight' = inflight - 1
    /\ exchange' = "complete"
    /\ promise' = "from_reader"
    /\ UNCHANGED <<pc, req, handler, http_request, reply, data, response,
                   resolved, handlerCalls, httpCalls, ret, sends>>
    /\ UNCHANGED codecVars

\* lines 41-46: the exchange fails (connection refused, reset, bad framing);
\* and_then, map and flatten pass the error on and map_err converts it.
TransportError ==
    /\ pc = "run"
    /\ promise \in {"response", "concat2"}
    /\ inflight' = inflight - 1
    /\ exchange' = "failed"
    /\ promise' = "resolved"
    /\ resolved' = ErrV("TransportError")
    /\ UNCHANGED <<pc, req, handler, http_request, reply, data, response,
                   handlerCalls, httpCalls, ret, sends>>
    /\ UNCHANGED codecVars

\* Mutant of FromReader: a reply that does not decode replaced by a default
\* Response (unwrap_or_default) in place of flatten passing the error on.
FromReader_unwrap_or_default ==
    /\ pc = "run"
    /\ promise = "from_reader"
    /\ LET r == from_reader(data)
       IN  response' = IF r.kind = "Ok" THEN r.value
                       ELSE [kind |-> "Response", id |-> ResPQId,
                             payload |-> <<0>>]
    /\ promise' = "map"
    /\ UNCHANGED <<pc, req, handler, http_request, inflight, exchange, reply,
                   data, resolved, handlerCalls, httpCalls, ret, sends>>
    /\ UNCHANGED codecVars

\* lines 44-46: map(|data| Response::from_reader(&*data)).flatten(); an Err
\* resolves the promise, map_err converting it.
FromReader ==
    /\ pc = "run"
    /\ promise = "from_reader"
    /\ LET r == from_reader(data)
       IN  IF r.kind = "Ok"
           THEN /\ response' = r.value
                /\ promise' = "map"
                /\ resolved' = resolved
           ELSE /\ resolved' = r
                /\ promise' = "resolved"
                /\ response' = response
    /\ UNCHANGED <<pc, req, handler, http_request, inflight, exchange, reply,
                   data, handlerCalls, httpCalls, ret, sends>>
    /\ UNCHANGED codecVars

\* line 47: .map(on_receive_handler) calls the continuation with the Response.
InvokeHandler ==
    /\ pc = "run"
    /\ promise = "map"
    /\ handlerCalls' = Append(handlerCalls, response)
    /\ resolved' = OkV(CallHandler(handler, response))
    /\ promise' = "resolved"
    /\ UNCHANGED <<pc, req, handler, http_request, inflight, exchange, reply,
                   data, response, httpCalls, ret, sends>>
    /\ UNCHANGED codecVars

\* Mutant of Return: the promise spawned on the reactor's handle instead of
\* run to completion, so send returns while it is still pending.
Return_spawned ==
    /\ pc = "run"
    /\ promise \in {"response", "concat2", "resolved"}
    /\ ret' = resolved
    /\ promise' = IF promise = "resolved" THEN "None" ELSE promise
    /\ pc' = "idle"
    /\ UNCHANGED <<req, handler, http_request, inflight, exchange, reply, data,
                   response, resolved, handlerCalls, httpCalls, sends>>
    /\ UNCHANGED codecVars

\* line 49: core.run returns the promise's value once it has resolved, and
\* the promise is dropped.
Return ==
    /\ pc = "run"
    /\ promise = "resolved"
    /\ ret' = resolved
    /\ promise' = "None"
    /\ pc' = "idle"
    /\ UNCHANGED <<req, handler, http_request, inflight, exchange, reply, data,
                   response, resolved, handlerCalls, httpCalls, sends>>
    /\ UNCHANGED codecVars

CodecUnused ==
    /\ buffer = <<>>
    /\ start = 0
    /\ val = NoVal
    /\ result = "None"
    /\ nops = 0

ClientInit == CodecUnused /\ ClientIdle

ClientNext ==
    \/ CallSend
    \/ ToHttpRequest
    \/ BuildPromise
    \/ IssueRequest
    \/ RecvResponse
    \/ RecvChunk
    \/ BodyEnd
    \/ TransportError
    \/ FromReader
    \/ InvokeHandler
    \/ Return

ClientSpec == ClientInit /\ [][ClientNext]_vars

-----------------------------------------------------------------------------
(* Claims about Client::send *)

\* send has returned at least once and no send is running.
Returned == pc = "idle" /\ sends > 0

\* C7: Client state machine.  At most one request is in flight; the Client
\* is Awaiting exactly while the one HTTP call of the running send is
\* pending; once send has returned, on every outcome, the Client is Idle and
\* neither a request nor the promise of that send is pending.
C7_ClientStateMachine ==
    /\ inflight \in {0, 1}
    /\ (ClientState = "Awaiting") <=> (exchange = "pending")
    /\ (ClientState = "Awaiting") => (pc = "run" /\ httpCalls = 1)
    /\ (pc = "idle") =>
        /\ ClientState = "Idle"
        /\ promise = "None"
        /\ exchange # "pending"

\* C7 witness: the second send on the Client returned after its exchange
\* failed while the reply was awaited.
C7_Witness ==
    /\ Returned
    /\ sends = 2
    /\ exchange = "failed"
    /\ ret.kind = "Err"

\* C8: Successful send.  The continuation is invoked at most once, and only
\* with the Response decoded from the whole reply body; when serialization,
\* the exchange and decoding all succeeded, send has invoked it exactly once
\* and returned Ok of its result.
C8_SuccessfulSend ==
    /\ Len(handlerCalls) <= 1
    /\ (handlerCalls # <<>>) =>
        /\ exchange = "complete"
        /\ data = reply
        /\ from_reader(reply).kind = "Ok"
        /\ handlerCalls[1] = from_reader(reply).value
    /\ (/\ Returned
        /\ to_http_request(req).kind = "Ok"
        /\ exchange = "complete"
        /\ from_reader(data).kind = "Ok") =>
            /\ Len(handlerCalls) = 1
            /\ ret.kind = "Ok"
            /\ ret.value = CallHandler(handler, handlerCalls[1])

\* C8 witness: a send whose reply came in three chunks returned Ok of the
\* continuation's result.
C8_Witness ==
    /\ Returned
    /\ ret.kind = "Ok"
    /\ Len(reply) = 3
    /\ handler.add = 10
    /\ ret.value = 16

\* C9: Error propagation.  No send issues a second HTTP call; when the
\* exchange failed, or the reply did not decode, send returns that error and
\* the continuation is not invoked.
C9_ErrorPropagation ==
    /\ httpCalls <= 1
    /\ (exchange = "failed") => handlerCalls = <<>>
    /\ (exchange = "complete" /\ from_reader(data).kind = "Err") =>
            handlerCalls = <<>>
    /\ (Returned /\ exchange = "failed") =>
        /\ ret.kind = "Err"
        /\ ret.err = "TransportError"
    /\ (Returned /\ exchange = "complete" /\ from_reader(data).kind = "Err") =>
        /\ ret.kind = "Err"
        /\ ret.err = from_reader(data).err

\* C9 witness: a send returned the decode error of a reply of another type.
C9_Witness ==
    /\ Returned
    /\ exchange = "complete"
    /\ ret.kind = "Err"
    /\ ret.err = "TypeMismatch"

\* C10: Serialize-before-send ordering.  An HTTP call is issued only with
\* the serialized request in hand; when serialization fails, send returns
\* that error with no HTTP call issued, the Client Idle and the continuation
\* not invoked.
C10_SerializeBeforeSend ==
    /\ (httpCalls > 0) =>
        /\ to_http_request(req).kind = "Ok"
        /\ http_request = to_http_request(req).value
    /\ (sends > 0 /\ pc # "to_http_request"
            /\ to_http_request(req).kind = "Err") =>
        /\ pc = "idle"
        /\ ret.kind = "Err"
        /\ ret.err = to_http_request(req).err
        /\ httpCalls = 0
        /\ ClientState = "Idle"
        /\ handlerCalls = <<>>

\* C10 witness: a send of a request that does not serialize returned.
C10_Witness ==
    /\ Returned
    /\ ret.kind = "Err"
    /\ ret.err = "EncodeError"
    /\ ~req.encodable

====
